---- MODULE Spec2Model ----
(***************************************************************************)
(* Model of the property endpoints of the real-estate backend              *)
(* (src/main.py): create_property, list_properties and get_property over   *)
(* the "property" collection of the document store.                        *)
(*                                                                         *)
(* Conventions.  An Optional[T] value is a set: {} is Python's None and    *)
(* {v} is the value v.  Text that is searched (q, title, description) is a *)
(* sequence of one-character strings; text that is only compared (status,  *)
(* property_type, city) is a TLA+ string.  An ObjectId is the natural      *)
(* number of its insertion (ids grow with insertion time) and its str()    *)
(* form is a fixed-width lower-case hexadecimal text.                      *)
(***************************************************************************)
EXTENDS Integers, Sequences, FiniteSets, TLC

VARIABLES store, call, created

vars == <<store, call, created>>

\* ---------------------------------------------------------------- bounds
\* Largest number of documents the collection holds in the model.
MaxDocs == 3
\* Number of hexadecimal digits of an identifier text (24 in the driver).
IdWidth == 2

\* ------------------------------------------------------------- constants
DefaultLimit == 24

\* ------------------------------------------------------------- optionals
None == {}
Some(v) == {v}
IsNone(o) == o = {}
Val(o) == CHOOSE v \in o : TRUE

\* Python truthiness of an Optional[str] held as a TLA+ string.
TruthyStr(o) == o /= {} /\ Val(o) /= ""
\* Python truthiness of an Optional[str] held as a character sequence.
TruthyText(o) == o /= {} /\ Val(o) /= <<>>

Min(a, b) == IF a <= b THEN a ELSE b

\* ----------------------------------------------------------- identifiers
HexDigits == <<"0", "1", "2", "3", "4", "5", "6", "7", "8", "9", "a", "b", "c", "d", "e", "f">>
UpperHex == <<"0", "1", "2", "3", "4", "5", "6", "7", "8", "9", "A", "B", "C", "D", "E", "F">>

IsHexChar(c) == \E k \in 1..16 : HexDigits[k] = c \/ UpperHex[k] = c
HexVal(c) == (CHOOSE k \in 1..16 : HexDigits[k] = c \/ UpperHex[k] = c) - 1

RECURSIVE Pow16(_)
Pow16(n) == IF n = 0 THEN 1 ELSE 16 * Pow16(n - 1)

\* str(ObjectId): fixed width, lower case, most significant digit first.
ObjectIdStr(oid) == [i \in 1..IdWidth |-> HexDigits[((oid \div Pow16(IdWidth - i)) % 16) + 1]]

\* ObjectId(text) raises InvalidId unless text is IdWidth hexadecimal digits.
ValidObjectId(s) == Len(s) = IdWidth /\ \A i \in 1..Len(s) : IsHexChar(s[i])

RECURSIVE HexNumber(_)
HexNumber(s) == IF s = <<>> THEN 0 ELSE 16 * HexNumber(SubSeq(s, 1, Len(s) - 1)) + HexVal(s[Len(s)])

ParseObjectId(s) == HexNumber(s)

\* ------------------------------------------------------------------ text
Lower(c) ==
  CASE c = "P" -> "p"
    [] c = "O" -> "o"
    [] c = "L" -> "l"
    [] c = "X" -> "x"
    [] OTHER -> c

\* The store compiles q as a regular expression; an unbalanced "(" does not compile.
RegexValid(pat) == \A k \in 1..Len(pat) : pat[k] /= "("

\* {"$regex": pat, "$options": "i"}: unanchored search, "." matches any character,
\* every other character of the modelled alphabet matches itself ignoring case.
RegexSearch(pat, text) ==
  \E i \in 0..(Len(text) - Len(pat)) :
    \A k \in 1..Len(pat) : pat[k] = "." \/ Lower(pat[k]) = Lower(text[i + k])

\* Literal case-insensitive substring test (what the text constraint is said to be).
ContainsIgnoreCase(text, sub) ==
  \E i \in 0..(Len(text) - Len(sub)) :
    \A k \in 1..Len(sub) : Lower(sub[k]) = Lower(text[i + k])

\* ------------------------------------------------------------- documents
\* Property (src/schemas.py) restricted to the fields the queries read.
\* Numbers are integers; price >= 0, beds >= 0 and baths >= 0 as Field(ge=0) demands.
Sale == "For Sale"
Rent == "For Rent"

Catalog ==
  { [title |-> <<"P", "o", "o", "l">>, description |-> None, status |-> Sale,
     price |-> 250000, beds |-> Some(3), baths |-> Some(2),
     property_type |-> Some("House"), city |-> "Austin"],
    [title |-> <<"x">>, description |-> Some(<<"a", "p", "O", "O", "L">>), status |-> Rent,
     price |-> 50000, beds |-> None, baths |-> None,
     property_type |-> None, city |-> "Austin"],
    [title |-> <<"l", "o", "t">>, description |-> Some(<<"x", ".">>), status |-> Sale,
     price |-> 600000, beds |-> Some(0), baths |-> Some(1),
     property_type |-> Some("Condo"), city |-> "Dallas"] }

\* The stored document: the model's fields plus the store-assigned key.
WithId(body, oid) ==
  [k \in DOMAIN body \cup {"_id"} |-> IF k = "_id" THEN oid ELSE body[k]]

\* --------------------------------------------------------- query builder
\* Request binding of list_properties: an absent sort is "newest", an absent
\* limit is 24; the filter parameters stay optional.
BindList(query) ==
  [query EXCEPT !.sort = IF IsNone(query.sort) THEN Some("newest") ELSE query.sort,
                !.limit = IF IsNone(query.limit) THEN Some(DefaultLimit) ELSE query.limit]

PriceFilter(p) ==
  IF ~IsNone(p.min_price) \/ ~IsNone(p.max_price)
    THEN Some([gte |-> p.min_price, lte |-> p.max_price])
    ELSE None

\* filter_dict: a key is {} when the code does not set it.
BuildFilterDropsCity(p) ==
  [status |-> IF TruthyStr(p.status) THEN p.status ELSE None,
   beds |-> IF ~IsNone(p.beds) THEN p.beds ELSE None,
   baths |-> IF ~IsNone(p.baths) THEN p.baths ELSE None,
   property_type |-> IF TruthyStr(p.property_type) THEN p.property_type ELSE None,
   city |-> None,
   price |-> PriceFilter(p),
   or |-> IF TruthyText(p.q) THEN p.q ELSE None]
BuildFilter(p) ==
  [status |-> IF TruthyStr(p.status) THEN p.status ELSE None,
   beds |-> IF ~IsNone(p.beds) THEN p.beds ELSE None,
   baths |-> IF ~IsNone(p.baths) THEN p.baths ELSE None,
   property_type |-> IF TruthyStr(p.property_type) THEN p.property_type ELSE None,
   city |-> IF TruthyStr(p.city) THEN p.city ELSE None,
   price |-> PriceFilter(p),
   or |-> IF TruthyText(p.q) THEN p.q ELSE None]

SortSpecAscendingIds(sort) ==
  IF sort = Some("price_asc") THEN [key |-> "price", dir |-> 1]
  ELSE IF sort = Some("price_desc") THEN [key |-> "price", dir |-> -1]
  ELSE [key |-> "_id", dir |-> 1]
SortSpec(sort) ==
  IF sort = Some("price_asc") THEN [key |-> "price", dir |-> 1]
  ELSE IF sort = Some("price_desc") THEN [key |-> "price", dir |-> -1]
  ELSE [key |-> "_id", dir |-> -1]

\* ------------------------------------------------- the store's operators
\* {"field": {"$gte": n}}: a null field never matches a numeric comparison.
GteTreatsNullAsZero(field, n) == IF IsNone(field) THEN 0 >= n ELSE Val(field) >= n
Gte(field, n) == ~IsNone(field) /\ Val(field) >= n

PriceInRangeExclusive(price, range) ==
  /\ (IsNone(range.gte) \/ price > Val(range.gte))
  /\ (IsNone(range.lte) \/ price < Val(range.lte))
PriceInRange(price, range) ==
  /\ (IsNone(range.gte) \/ price >= Val(range.gte))
  /\ (IsNone(range.lte) \/ price <= Val(range.lte))

\* {"$or": [{"title": regex}, {"description": regex}]}
TextMatches(d, pat) ==
  \/ RegexSearch(pat, d.title)
  \/ (~IsNone(d.description) /\ RegexSearch(pat, Val(d.description)))

\* The keys of a filter document are combined by AND.
Matches(d, f) ==
  /\ (IsNone(f.status) \/ d.status = Val(f.status))
  /\ (IsNone(f.beds) \/ Gte(d.beds, Val(f.beds)))
  /\ (IsNone(f.baths) \/ Gte(d.baths, Val(f.baths)))
  /\ (IsNone(f.property_type) \/ d.property_type = f.property_type)
  /\ (IsNone(f.city) \/ d.city = Val(f.city))
  /\ (IsNone(f.price) \/ PriceInRange(d.price, Val(f.price)))
  /\ (IsNone(f.or) \/ TextMatches(d, Val(f.or)))

\* A filter the store refuses to run (the regular expression does not compile).
FilterRejected(f) == ~IsNone(f.or) /\ ~RegexValid(Val(f.or))

\* find(filter): the documents of the collection the filter selects.
Matching(docs, f) == {d \in {docs[i] : i \in 1..Len(docs)} : Matches(d, f)}

CountDocumentsIgnoresFilter(docs, f) == Len(docs)
CountDocuments(docs, f) == Cardinality(Matching(docs, f))

\* d comes strictly before e under the sort specification.
Before(d, e, spec) ==
  IF spec.dir = 1 THEN d[spec.key] < e[spec.key] ELSE d[spec.key] > e[spec.key]

\* Every order of S the sort may produce: documents with equal keys come in
\* any order, the store promises none.
RECURSIVE SortedOrders(_, _)
SortedOrders(S, spec) ==
  IF S = {} THEN {<<>>}
  ELSE UNION { {<<m>> \o t : t \in SortedOrders(S \ {m}, spec)} :
               m \in {d \in S : \A e \in S : ~Before(e, d, spec)} }

\* cursor.limit(n): 0 is "no limit".
LimitOffByOne(ord, limit) ==
  IF limit = 0 THEN ord ELSE SubSeq(ord, 1, Min(limit + 1, Len(ord)))
Limit(ord, limit) ==
  IF limit = 0 THEN ord ELSE SubSeq(ord, 1, Min(limit, Len(ord)))

\* ------------------------------------------------------ result normalizer
\* item["id"] = str(item.pop("_id"))
NormalizeKeepsInternalKey(d) ==
  [k \in DOMAIN d \cup {"id"} |-> IF k = "id" THEN ObjectIdStr(d._id) ELSE d[k]]
Normalize(d) ==
  [k \in (DOMAIN d \ {"_id"}) \cup {"id"} |-> IF k = "id" THEN ObjectIdStr(d["_id"]) ELSE d[k]]

\* ---------------------------------------------------------------- inputs
Query(q, status, min_price, max_price, beds, baths, property_type, city, sort, limit) ==
  [q |-> q, status |-> status, min_price |-> min_price, max_price |-> max_price,
   beds |-> beds, baths |-> baths, property_type |-> property_type, city |-> city,
   sort |-> sort, limit |-> limit]

NoQuery == Query(None, None, None, None, None, None, None, None, None, None)

\* Every combination of present and absent filter parameters.
CoreQueries ==
  { Query(q, st, lo, hi, be, ba, ty, ci, None, None) :
      q \in {None, Some(<<"p", "o", "o", "l">>)}, st \in {None, Some(Sale)},
      lo \in {None, Some(100000)}, hi \in {None, Some(500000)},
      be \in {None, Some(2)}, ba \in {None, Some(1)},
      ty \in {None, Some("House")}, ci \in {None, Some("Austin")} }

\* One parameter at a time, over its boundary values.
EdgeQueries ==
  { [NoQuery EXCEPT !.q = q] : q \in {Some(<<>>), Some(<<".">>), Some(<<"(">>), Some(<<"O", "t">>)} }
  \cup { [NoQuery EXCEPT !.status = st] : st \in {Some(""), Some(Rent)} }
  \cup { [NoQuery EXCEPT !.beds = Some(n)] : n \in {0, 3, 4} }
  \cup { [NoQuery EXCEPT !.baths = Some(n)] : n \in {0, 2, 3} }
  \cup { [NoQuery EXCEPT !.property_type = ty] : ty \in {Some(""), Some("Condo")} }
  \cup { [NoQuery EXCEPT !.city = ci] : ci \in {Some(""), Some("Dallas")} }

\* Both price bounds, the inverted ranges included.
PriceQueries ==
  { [NoQuery EXCEPT !.min_price = lo, !.max_price = hi] :
      lo \in {None, Some(0), Some(250000), Some(600000)},
      hi \in {None, Some(50000), Some(250000), Some(700000)} }

\* Sorting and paging, with and without a filter.
PageQueries ==
  { [f EXCEPT !.sort = so, !.limit = li] :
      f \in {NoQuery, [NoQuery EXCEPT !.city = Some("Dallas")]},
      so \in {None, Some("newest"), Some("price_asc"), Some("price_desc"), Some("bogus")},
      li \in {None, Some(0), Some(1), Some(2)} }

ListQueries == CoreQueries \cup EdgeQueries \cup PriceQueries \cup PageQueries

\* Identifier texts a caller may send: the keys the store can hold, a well-formed
\* key in upper case, and texts ObjectId() rejects.
PropertyIds ==
  { ObjectIdStr(n) : n \in 1..(MaxDocs + 1) }
  \cup { [i \in 1..IdWidth |-> IF i = IdWidth THEN "A" ELSE "0"],
         [i \in 1..IdWidth |-> IF i = IdWidth THEN "1" ELSE "z"],
         SubSeq(ObjectIdStr(1), 2, IdWidth),
         ObjectIdStr(1) \o <<"0">> }

\* ----------------------------------------------------------------- state
Idle ==
  [op |-> "none", pc |-> "idle", query |-> NoQuery, params |-> NoQuery, property_id |-> <<>>,
   status |-> 0, raised |-> "none", total |-> 0, items |-> <<>>, doc |-> None,
   nAtCount |-> 0, nAtFetch |-> 0]

Init ==
  /\ store = <<>>
  /\ call = Idle
  /\ created = [status |-> 0, id |-> None]

\* `except Exception as e: raise HTTPException(status_code=500, ...)`:
\* every exception raised in the try block, HTTPException included, becomes 500.
ExceptException(raised) == IF raised = "none" THEN 200 ELSE 500

\* --------------------------------------------------------------- actions
\* POST /api/properties: the store assigns the next key and returns its text.
CreateProperty ==
  /\ Len(store) < MaxDocs
  /\ \E body \in Catalog, fail \in BOOLEAN :
       IF fail
         THEN /\ created' = [status |-> ExceptException("StoreError"), id |-> None]
              /\ UNCHANGED store
         ELSE LET oid == Len(store) + 1
              IN /\ store' = Append(store, WithId(body, oid))
                 /\ created' = [status |-> 200, id |-> Some(ObjectIdStr(oid))]
  /\ UNCHANGED call

\* GET /api/properties, first part: bind the parameters, build filter_dict and
\* sort_spec, create the (lazy) cursor and run count_documents.
ListCount ==
  /\ call.pc = "idle"
  /\ \E query \in ListQueries, fail \in BOOLEAN :
       LET p == BindList(query)
           f == BuildFilter(p)
           raised == IF fail THEN "StoreError"
                     ELSE IF FilterRejected(f) THEN "OperationFailure" ELSE "none"
       IN call' =
            IF raised /= "none"
              THEN [Idle EXCEPT !.op = "list", !.pc = "done", !.query = query, !.params = p,
                                !.raised = raised, !.status = ExceptException(raised),
                                !.nAtCount = Len(store), !.nAtFetch = Len(store)]
              ELSE [Idle EXCEPT !.op = "list", !.pc = "counted", !.query = query, !.params = p,
                                !.total = CountDocuments(store, f),
                                !.nAtCount = Len(store)]
  /\ UNCHANGED <<store, created>>

\* GET /api/properties, second part: run the cursor (find, sort, limit),
\* normalize every item and return {"items", "total"}.
ListFetch ==
  /\ call.pc = "counted"
  /\ \E fail \in BOOLEAN :
       IF fail
         THEN call' = [call EXCEPT !.pc = "done", !.raised = "StoreError",
                                   !.status = ExceptException("StoreError"),
                                   !.total = 0, !.nAtFetch = Len(store)]
         ELSE \E ord \in SortedOrders(Matching(store, BuildFilter(call.params)),
                                      SortSpec(call.params.sort)) :
                LET page == Limit(ord, Val(call.params.limit))
                IN call' = [call EXCEPT !.pc = "done", !.status = ExceptException("none"),
                                        !.items = [i \in 1..Len(page) |-> Normalize(page[i])],
                                        !.nAtFetch = Len(store)]
  /\ UNCHANGED <<store, created>>

\* The try block of get_property: what it raises, or the document it returns.
GetPropertyTry(property_id, docs, fail) ==
  IF ~ValidObjectId(property_id) THEN [raised |-> "InvalidId", doc |-> None]
  ELSE IF fail THEN [raised |-> "StoreError", doc |-> None]
  ELSE LET found == {d \in {docs[i] : i \in 1..Len(docs)} : d["_id"] = ParseObjectId(property_id)}
       IN IF found = {}
            THEN [raised |-> "HTTPException404", doc |-> None]
            ELSE [raised |-> "none", doc |-> Some(Normalize(Val(found)))]

\* GET /api/properties/{property_id}
GetProperty ==
  /\ call.pc = "idle"
  /\ \E property_id \in PropertyIds, fail \in BOOLEAN :
       LET r == GetPropertyTry(property_id, store, fail)
       IN call' = [Idle EXCEPT !.op = "get", !.pc = "done", !.property_id = property_id,
                               !.raised = r.raised, !.status = ExceptException(r.raised),
                               !.doc = r.doc,
                               !.nAtCount = Len(store), !.nAtFetch = Len(store)]
  /\ UNCHANGED <<store, created>>

\* The response leaves the server; the handler's locals are gone and the
\* client may send its next request.
Respond ==
  /\ call.pc = "done"
  /\ call' = Idle
  /\ UNCHANGED <<store, created>>

Next == CreateProperty \/ ListCount \/ ListFetch \/ GetProperty \/ Respond

Spec == Init /\ [][Next]_vars

\* ------------------------------------------------------ shared vocabulary
\* A finished request, as the caller sees it.
ListDone == call.op = "list" /\ call.pc = "done"
ListOk == ListDone /\ call.status = 200
GetDone == call.op = "get" /\ call.pc = "done"
GetOk == GetDone /\ call.status = 200

\* The collection at the listing's count step and at its fetch step (documents
\* are only ever appended, so both are prefixes of the current collection).
DocsAtCount == {store[i] : i \in 1..call.nAtCount}
DocsAtFetch == {store[i] : i \in 1..call.nAtFetch}
Stored == {store[i] : i \in 1..Len(store)}

Items == {call.items[i] : i \in 1..Len(call.items)}
ItemKeys == {ParseObjectId(it.id) : it \in Items}
\* The stored document an item was made from.
Raw(item) == CHOOSE d \in Stored : d["_id"] = ParseObjectId(item.id)

PageSize(n) == IF Val(call.params.limit) = 0 THEN n ELSE Min(Val(call.params.limit), n)

\* The response is a page of exactly the documents E selects, and its total
\* counted exactly the documents E selects.
PageOf(E(_)) ==
  /\ ItemKeys \subseteq {d["_id"] : d \in {e \in DocsAtFetch : E(e)}}
  /\ Cardinality(ItemKeys) = Len(call.items)
  /\ Len(call.items) = PageSize(Cardinality({e \in DocsAtFetch : E(e)}))
TotalOf(E(_)) == call.total = Cardinality({e \in DocsAtCount : E(e)})

\* The constraints of the parameters, stated on the document.
StatusIs(d, s) == d.status = s
TypeIs(d, t) == d.property_type = {t}
CityIs(d, c) == d.city = c
BedsAtLeast(d, n) == \E b \in d.beds : b >= n
BathsAtLeast(d, n) == \E b \in d.baths : b >= n
PriceAtLeast(d, lo) == d.price >= lo
PriceAtMost(d, hi) == d.price <= hi
PatternFound(d, q) ==
  RegexSearch(q, d.title) \/ \E t \in d.description : RegexSearch(q, t)
LiteralFound(d, q) ==
  ContainsIgnoreCase(d.title, q) \/ \E t \in d.description : ContainsIgnoreCase(t, q)

\* A string parameter constrains when it is given and not empty; a numeric
\* parameter constrains when it is given.
GivenStr(o) == \E v \in o : v /= ""
GivenText(o) == \E v \in o : Len(v) > 0

\* d satisfies the constraint of every contributing parameter of p.
Selected(d, p) ==
  /\ GivenStr(p.status) => StatusIs(d, Val(p.status))
  /\ ~IsNone(p.beds) => BedsAtLeast(d, Val(p.beds))
  /\ ~IsNone(p.baths) => BathsAtLeast(d, Val(p.baths))
  /\ GivenStr(p.property_type) => TypeIs(d, Val(p.property_type))
  /\ GivenStr(p.city) => CityIs(d, Val(p.city))
  /\ ~IsNone(p.min_price) => PriceAtLeast(d, Val(p.min_price))
  /\ ~IsNone(p.max_price) => PriceAtMost(d, Val(p.max_price))
  /\ GivenText(p.q) => PatternFound(d, Val(p.q))

\* The same with every present parameter contributing, empty strings included.
SelectedWhenPresent(d, p) ==
  /\ ~IsNone(p.status) => StatusIs(d, Val(p.status))
  /\ ~IsNone(p.beds) => BedsAtLeast(d, Val(p.beds))
  /\ ~IsNone(p.baths) => BathsAtLeast(d, Val(p.baths))
  /\ ~IsNone(p.property_type) => TypeIs(d, Val(p.property_type))
  /\ ~IsNone(p.city) => CityIs(d, Val(p.city))
  /\ ~IsNone(p.min_price) => PriceAtLeast(d, Val(p.min_price))
  /\ ~IsNone(p.max_price) => PriceAtMost(d, Val(p.max_price))
  /\ ~IsNone(p.q) => PatternFound(d, Val(p.q))

\* ---------------------------------------------------------------- claims
\* C1: get_property with an identifier text that ObjectId() rejects answers
\* 404 "not found", never 500.
C1_InvalidIdIsNotFound ==
  (GetDone /\ ~ValidObjectId(call.property_id)) => call.status = 404

\* C2: get_property with a well-formed identifier that no stored property has
\* answers 404, distinct from the 500 of a store failure.
C2_MissingIdIsNotFound ==
  (GetDone /\ ValidObjectId(call.property_id) /\ call.raised /= "StoreError"
     /\ ParseObjectId(call.property_id) \notin {d["_id"] : d \in Stored})
  => call.status = 404

\* C3: the total of a listing is the number of stored properties the filter
\* selects at the count step, whatever limit and sort are.
C3_TotalCountsMatches ==
  ListOk => TotalOf(LAMBDA d : Selected(d, call.query))
\* C3 witness: a listing whose total exceeds the number of items returned.
C3_Witness == ListOk /\ call.total > Len(call.items) /\ call.total < call.nAtCount


C5_TextIsLiteralSubstring ==
  (ListOk /\ ~IsNone(call.query.q)) =>
    PageOf(LAMBDA d : /\ Selected(d, [call.query EXCEPT !.q = None])
                      /\ LiteralFound(d, Val(call.query.q)))

\* C6: min_price and max_price are inclusive bounds on price, each optional;
\* with min_price > max_price the listing is answered with no item and total 0.
C6_PriceRangeInclusive ==
  /\ ListOk =>
       PageOf(LAMBDA d :
                /\ Selected(d, [call.query EXCEPT !.min_price = None, !.max_price = None])
                /\ \A lo \in call.query.min_price : d.price >= lo
                /\ \A hi \in call.query.max_price : d.price <= hi)
  /\ (ListDone /\ call.raised = "none"
        /\ \E lo \in call.query.min_price : \E hi \in call.query.max_price : lo > hi)
     => (call.status = 200 /\ call.items = <<>> /\ call.total = 0)
\* C6 witness: a property whose price equals both bounds is returned.
C6_Witness ==
  /\ ListOk
  /\ call.query.min_price = Some(250000)
  /\ call.query.max_price = Some(250000)
  /\ Len(call.items) >= 1
  /\ Len(call.items) < call.nAtFetch

\* C7: beds = n and baths = n select the properties whose value is present
\* and at least n; a property without the value is excluded, for n = 0 too.
C7_BedsBathsLowerBound ==
  ListOk =>
    PageOf(LAMBDA d :
             /\ Selected(d, [call.query EXCEPT !.beds = None, !.baths = None])
             /\ \A n \in call.query.beds : (d.beds /= None /\ Val(d.beds) >= n)
             /\ \A n \in call.query.baths : (d.baths /= None /\ Val(d.baths) >= n))
\* C7 witness: beds = 0 returns a property and leaves out one that has no beds value.
C7_Witness ==
  /\ ListOk
  /\ call.query.beds = Some(0)
  /\ Len(call.items) >= 1
  /\ \E d \in DocsAtFetch : d.beds = None

\* C8: the items come in ascending price for price_asc, in descending price
\* for price_desc and otherwise newest first (descending key), and the page is
\* the head of that order; an unrecognized sort is answered as "newest" is.
InOrder(d, e) ==
  IF call.params.sort = Some("price_asc") THEN d.price <= e.price
  ELSE IF call.params.sort = Some("price_desc") THEN d.price >= e.price
  ELSE d["_id"] > e["_id"]
C8_ItemsSorted ==
  ListOk =>
    /\ \A i \in 1..Len(call.items) : \A j \in (i + 1)..Len(call.items) :
         InOrder(Raw(call.items[i]), Raw(call.items[j]))
    /\ \A it \in Items :
         \A d \in {e \in DocsAtFetch : Selected(e, call.query)} :
           d["_id"] \in ItemKeys \/ InOrder(Raw(it), d)
\* C8 witness: an unrecognized sort value answered with several items out of more.
C8_Witness ==
  /\ ListOk
  /\ call.params.sort = Some("bogus")
  /\ Len(call.items) >= 2
  /\ Len(call.items) < call.nAtFetch

\* C9: a returned document has no _id field, its id is the text of the stored
\* document's key, and every other field is the stored one.
External(item) ==
  /\ "_id" \notin DOMAIN item
  /\ "id" \in DOMAIN item
  /\ Len(item.id) = IdWidth
  /\ \A i \in 1..Len(item.id) : \E k \in 1..16 : HexDigits[k] = item.id[i]
  /\ \E d \in Stored :
       /\ d["_id"] = ParseObjectId(item.id)
       /\ DOMAIN item = (DOMAIN d \ {"_id"}) \cup {"id"}
       /\ \A k \in DOMAIN d \ {"_id"} : item[k] = d[k]
C9_ReturnedDocumentsNormalized ==
  /\ ListOk => \A it \in Items : External(it)
  /\ GetOk => /\ call.doc /= None
              /\ External(Val(call.doc))
              /\ ParseObjectId(Val(call.doc).id) = ParseObjectId(call.property_id)
\* C9 witness: a listing that returned several documents.
C9_Witness == ListOk /\ Len(call.items) >= 2

\* C10 as stated: with limit >= 1 the number of items is min(limit, total) in
\* every interleaving.
C10_ItemsAreMinLimitTotal ==
  (ListOk /\ Val(call.params.limit) >= 1)
  => Len(call.items) = Min(Val(call.params.limit), call.total)

\* C10 amended: with limit >= 1 the number of items lies between
\* min(limit, total) and limit, and equals min(limit, total) when no property
\* was inserted between the count step and the fetch step.
C10_ItemsBetweenTotalAndLimit ==
  (ListOk /\ Val(call.params.limit) >= 1) =>
    /\ Min(Val(call.params.limit), call.total) <= Len(call.items)
    /\ Len(call.items) <= Val(call.params.limit)
    /\ call.nAtCount = call.nAtFetch
         => Len(call.items) = Min(Val(call.params.limit), call.total)
\* C10 witness: a property inserted between count and fetch makes the page longer than total.
C10_Witness ==
  /\ ListOk
  /\ Val(call.params.limit) >= 1
  /\ call.nAtCount < call.nAtFetch
  /\ Len(call.items) > call.total

====
